---- MODULE Spec2Model ----
(***************************************************************************)
(* Zabibu Fresh: the conversation list, the chat session and the           *)
(* add-product screens, as state machines over the remote Message and      *)
(* Product stores.                                                         *)
(*                                                                         *)
(* The repository holds several versions of most screens.  Each version is *)
(* modelled as written and named after its component:                      *)
(*   "tabs"      app/(app)/(tabs)/chat.js  ChatScreen.fetchConversations    *)
(*               with getConversations of unnamed/part_010                 *)
(*   "messages"  unnamed/part_006 MessagesScreen.fetchConversations with    *)
(*               getConversations of app/services/messageService.js        *)
(*   "chat"      app/(app)/chat.js ChatScreen with messageService.js        *)
(*   "detail"    app/(app)/chat/[chatId].js ChatDetailScreen                *)
(* The tables "Message"/"messages" are the one Message store; a row is     *)
(* [id, senderId, receiverId, productId, content, timestamp].              *)
(***************************************************************************)
EXTENDS Integers, Sequences, FiniteSets, TLC

VARIABLES
    db,             \* Message store: committed rows, in commit order
    products,       \* Product store: ids of the product rows a select can embed
    viewer,         \* id of the signed-in user (profile.id / user.id)
    aggScreen,      \* which conversation-list screen is shown: "tabs" | "messages"
    conversations,  \* the screen's `conversations` state
    aggLoading,     \* the screen's `loading` state
    aggError,       \* last error surfaced by the screen ("" = none)
    aggFetch,       \* the last fetchConversations call: how it ended ("none"
                    \* before the first, "early", "ok", "caught") and what the
                    \* store answered to each request it made ("ok" or the
                    \* error's message)
    scr,            \* the chat screen that is mounted: "closed" | "chat" | "detail"
    session,        \* number of chat screens mounted so far (the component instance)
    messages,       \* the screen's `messages` state (the local view)
    loading,        \* the screen's `loading` state
    sending,        \* the screen's `sending` state
    chatError,      \* the error the screen shows for its mount or fetch: `error`
                    \* of ChatScreen, the Alert.alert of ChatDetailScreen
    lastSend,       \* how the last send handler ended: "none" before the first,
                    \* "pending" while it awaits, "sent", "ignored", or the text
                    \* of its Alert.alert
    subscribed,     \* number of realtime channels that are subscribed
    feed,           \* INSERT events queued for the subscribed channel's callback
    loads,          \* message fetches in flight for the mounted screen
    sendReq,        \* the insert request of the send in flight
    profileRole,    \* role of the profile the auth context holds ("none" = null)
    addScreen,      \* the add-product screen that is mounted, or "closed"
    addStep,        \* where the add-product handler is
    addResult,      \* what the add-product screen last showed the user
    requests,       \* requests the add-product handlers issued, with the role
                    \* the pressing profile had
    authSession,    \* AuthProvider `session`: the id of its user, or "none"
    authLoading,    \* AuthProvider `loading`
    initialLoading, \* AuthProvider `initialLoading`
    initStep,       \* where fetchSession is: "getSession" | "profile" | "done"
    storedSession,  \* the session the auth client holds (persisted), or "none"
    fetches,        \* getUserProfile calls in flight: of fetchSession (n = 0)
                    \* and of the auth listener (n = number of its event)
    userTable,      \* the User table: role of each user's profile row, "none" = no row
    platformOS,     \* what `Platform.OS` evaluates to in (tabs)/_layout.js
    authEvents,     \* auth state changes delivered to the listener so far
    signupScreen,   \* the sign-up screen that is mounted: "v1" | "v2" | "closed"
    signupStep,     \* where its handleSignup is
    signupRole,     \* the role picked in the form of the sign-up in flight
    signupAlert,    \* title of the last Alert.alert of the sign-up screen
    backendCalls,   \* requests the sign-up handlers issued
    timerArmed,     \* the profile refresh timer of AuthContext.handleSignUp is set
    accounts,       \* ids of the auth accounts that exist
    storage,        \* the product-images bucket: the paths of its objects
    delStep,        \* where the delete handler of the product list is, for
                    \* which product, in which version of the screen
    delAlerts,      \* the alerts the delete handler has shown for that product
    route,          \* the chat route that was asked for last: what is shown for
                    \* it, its receiverId param, and the alert of a refusal
    userRow,        \* the viewer's row of the User table: fullName, phone, role
    profileUpdate,  \* the last updateUserProfile: the fields it was asked to
                    \* write, the fields it sent to the store, how it ended
    edit,           \* the edit-product screen: what it shows, for which product,
                    \* the profile.id it compared, its last alert, and the
                    \* products updateProduct was called for
    listing         \* the product list screen: the products it lists and the
                    \* ones it puts a Delete button on

storeVars == <<db, products, viewer>>
aggVars == <<aggScreen, conversations, aggLoading, aggError, aggFetch>>
chatVars == <<scr, session, messages, loading, sending, chatError, lastSend,
              subscribed, feed, loads, sendReq>>
prodVars == <<profileRole, addScreen, addStep, addResult, requests>>
delVars == <<storage, delStep, delAlerts>>
navVars == <<route, userRow, profileUpdate, edit, listing>>
authVars == <<authSession, authLoading, initialLoading, initStep, storedSession,
              fetches, userTable, platformOS, authEvents, signupScreen, signupStep,
              signupRole, signupAlert, backendCalls, timerArmed, accounts>>

\* Model bounds
MaxRows == 3        \* rows the Message store holds in the conversation-list model
MaxMsgs == 2        \* rows the Message store holds in the chat model
MaxSessions == 2    \* chat screens mounted in one behaviour
MaxLoads == 1       \* message fetches in flight at once
MaxRequests == 3    \* requests the add-product handlers issue in one behaviour

Users == {"U1", "U2", "U3"}
Viewers == {"U1"}
Products == {"productA", "productB"}
Undefined == "undefined"

\* The <<sender, receiver>> pairs that write to each other
Correspondents ==
    {<<"U1", "U2">>, <<"U2", "U1">>, <<"U1", "U3">>, <<"U2", "U3">>}

NoRequest == [st |-> "none", content |-> "", id |-> 0, session |-> 0]

\* No chat screen has been opened
ChatIdle ==
    /\ scr = "closed"
    /\ session = 0
    /\ messages = <<>>
    /\ loading = TRUE
    /\ sending = FALSE
    /\ chatError = ""
    /\ lastSend = "none"
    /\ subscribed = 0
    /\ feed = <<>>
    /\ loads = <<>>
    /\ sendReq = NoRequest

Idle == [at |-> "idle", role |-> "none"]

\* No add-product screen has been opened
ProductIdle ==
    /\ profileRole = "none"
    /\ addScreen = "closed"
    /\ addStep = Idle
    /\ addResult = ""
    /\ requests = <<>>

NoFetch == [ended |-> "none", answers |-> <<>>]

AggIdle ==
    /\ aggScreen = "tabs"
    /\ conversations = <<>>
    /\ aggLoading = TRUE
    /\ aggError = ""
    /\ aggFetch = NoFetch

\* The public URL of the object at `path` of the product-images bucket, and
\* the path of the image of productA; texts with "/" are kept as the sequence
\* of their parts
PublicUrl(path) ==
    <<"https:", "", "project.supabase.co", "storage", "v1", "object", "public",
      "product-images">> \o path
ImageOfA == <<"U1", "grapes.jpg">>

\* filePath of an add-product upload: `${user.id}/${fileName}`
NewImage == <<"U1", "new.jpg">>

NoDelete == [at |-> "idle", product |-> "none", screen |-> "none"]

\* No product is being deleted; the bucket holds the image of productA
DeleteIdle ==
    /\ storage = {ImageOfA}
    /\ delStep = NoDelete
    /\ delAlerts = <<>>

NoRoute == [screen |-> "none", receiverId |-> "none", alert |-> ""]

NoUpdate == [asked |-> {}, payload |-> <<>>, ended |-> "none"]

NoEdit == [screen |-> "none", product |-> "none", profileId |-> "none", alert |-> "",
           updates |-> {}]

NoListing == [listed |-> {}, deleteOffered |-> {}, alert |-> ""]

\* No chat has been asked for, no profile update made, no product screen open
NavIdle ==
    /\ edit = NoEdit
    /\ listing = NoListing
    /\ route = NoRoute
    /\ userRow = [fullName |-> "Asha", phone |-> "+255700000001", role |-> "buyer"]
    /\ profileUpdate = NoUpdate

AuthUsers == {"U1", "U9"}

\* The AuthProvider as constructed, no sign-up screen opened
AuthIdle ==
    /\ authSession = "none"
    /\ authLoading = TRUE
    /\ initialLoading = TRUE
    /\ initStep = "getSession"
    /\ storedSession = "none"
    /\ fetches = {}
    /\ userTable = [u \in AuthUsers |-> "none"]
    /\ platformOS = "ios"
    /\ authEvents = 0
    /\ signupScreen = "closed"
    /\ signupStep = "idle"
    /\ signupRole = "none"
    /\ signupAlert = ""
    /\ backendCalls = <<>>
    /\ timerArmed = FALSE
    /\ accounts = {"U1"}

----------------------------------------------------------------------------
\* Helpers on sequences

Range(s) == {s[i] : i \in DOMAIN s}

SeqMap(s, Op(_)) == [i \in DOMAIN s |-> Op(s[i])]

\* The orders a store may return the rows of S in for ORDER BY timestamp DESC:
\* rows of equal timestamp come in any order.
DescOrderings(S) ==
    {s \in [1..Cardinality(S) -> S] :
        /\ \A i, j \in DOMAIN s : i # j => s[i] # s[j]
        /\ \A i, j \in DOMAIN s : i < j => s[i].timestamp >= s[j].timestamp}

----------------------------------------------------------------------------
\* The Message store

LastTimestamp == IF db = <<>> THEN 1 ELSE db[Len(db)].timestamp

NewRow(s, r, p, c, t) ==
    [id |-> Len(db) + 1, senderId |-> s, receiverId |-> r, productId |-> p,
     content |-> c, timestamp |-> t]

\* A client inserts a message; the store stamps it with now(), which never
\* runs backwards and may repeat.
InsertMessage ==
    /\ Len(db) < MaxRows
    /\ \E pair \in Correspondents, p \in Products,
          t \in {LastTimestamp, LastTimestamp + 1} :
          db' = Append(db, NewRow(pair[1], pair[2], p, "msg" \o ToString(Len(db) + 1), t))
    /\ UNCHANGED <<products, viewer, aggVars, chatVars, prodVars, authVars, delVars, navVars>>

\* deleteProduct: the product row is removed; rows of the Message store that
\* name it stay.
DeleteProduct ==
    /\ \E p \in products : products' = products \ {p}
    /\ UNCHANGED <<db, viewer, aggVars, chatVars, prodVars, authVars, delVars, navVars>>

----------------------------------------------------------------------------
\* Conversation list, "tabs" version

\* getConversations(userId): the select's filter
InvolvesUser(row, userId) == row.senderId = userId \/ row.receiverId = userId

\* The select without its .order('created_at', {ascending: false})
UnorderedConversationsData(userId) ==
    LET S == {row \in Range(db) : InvolvesUser(row, userId)}
    IN {s \in [1..Cardinality(S) -> S] : \A i, j \in DOMAIN s : i # j => s[i] # s[j]}

\* getConversations(userId): the possible `data` of a successful select
GetConversationsData(userId) ==
    DescOrderings({row \in Range(db) : InvolvesUser(row, userId)})

OtherUserId(message, profileId) ==
    IF message.senderId = profileId THEN message.receiverId ELSE message.senderId

ConversationKey(message, profileId) ==
    OtherUserId(message, profileId) \o "_" \o message.productId

TabsSummary(message, profileId) ==
    [id |-> ConversationKey(message, profileId),
     other |-> OtherUserId(message, profileId),
     product |-> message.productId,
     lastMessage |-> message.content,
     lastMessageTime |-> message.timestamp]

\* The loop over `messages`: a Map keyed by conversationKey keeps the first
\* message of every key, Array.from(map.values()) lists them in insertion order.
GroupMessages(data, profileId) ==
    LET G[i \in 0..Len(data)] ==
            IF i = 0 THEN <<>>
            ELSE LET message == data[i]
                     key == ConversationKey(message, profileId)
                 IN IF message.productId \notin products
                      THEN G[i-1]                       \* !message.products
                    ELSE IF \E k \in DOMAIN G[i-1] : G[i-1][k].id = key
                      THEN G[i-1]                       \* conversationMap.has
                    ELSE Append(G[i-1], TabsSummary(message, profileId))
    IN G[Len(data)]

\* Messages of the errors a request to the store can end with
Causes == {"Network request failed"}

\* The profile / user the auth context hands the screen: the viewer's, or null
ContextUsers == {viewer, "none"}

\* Alert.alert('Error', text + error.message)
AlertWithCause(text, cause) == text \o cause

TabsFetchConversations ==
    /\ aggScreen = "tabs"
    /\ \E profile \in ContextUsers :
          IF profile = "none"
            THEN \* if (!profile) return;
                 /\ aggFetch' = [ended |-> "early", answers |-> <<>>]
                 /\ UNCHANGED <<conversations, aggError, aggLoading>>
            ELSE /\ \/ \E data \in GetConversationsData(profile) :
                          /\ conversations' = GroupMessages(data, profile)
                          /\ aggError' = ""
                          /\ aggFetch' = [ended |-> "ok", answers |-> <<"ok">>]
                    \/ \E cause \in Causes :
                          /\ aggError' = AlertWithCause("Could not fetch conversations: ", cause)
                          /\ aggFetch' = [ended |-> "caught", answers |-> <<cause>>]
                          /\ UNCHANGED conversations
                 /\ aggLoading' = FALSE
    /\ UNCHANGED <<storeVars, aggScreen, chatVars, prodVars, authVars, delVars, navVars>>

----------------------------------------------------------------------------
\* Conversation list, "messages" version

\* keyExtractor of the FlatList
ItemKey(other, product, messageId) == other \o "-" \o product \o "-" \o messageId

\* A row of get_user_conversations, as ConversationItem reads it
RpcItem(row, userId) ==
    [id |-> ItemKey(OtherUserId(row, userId), row.productId, ToString(row.id)),
     other |-> OtherUserId(row, userId),
     product |-> row.productId,
     lastMessage |-> row.content,
     lastMessageTime |-> row.timestamp]

\* A raw Message row of the fallback select, as ConversationItem reads it: it
\* has no other_user_id, last_message_content, last_message_timestamp or
\* message_id.
RawItem(row) ==
    [id |-> ItemKey(Undefined, row.productId, Undefined),
     other |-> Undefined,
     product |-> row.productId,
     lastMessage |-> Undefined,
     lastMessageTime |-> 0]

\* get_user_conversations(p_user_id): the rows of the user joined with their
\* product, ROW_NUMBER() = 1 per (productId, other user) by timestamp DESC,
\* ordered by timestamp DESC.
RpcConversations(userId) ==
    LET joined == {row \in Range(db) :
                       InvolvesUser(row, userId) /\ row.productId \in products}
        SameGroup(a, b) == /\ a.productId = b.productId
                           /\ OtherUserId(a, userId) = OtherUserId(b, userId)
        FirstOfGroup(R) ==
            /\ \A a, b \in R : SameGroup(a, b) => a = b
            /\ \A a \in joined : \E r \in R :
                   SameGroup(a, r) /\ r.timestamp >= a.timestamp
        picks == {R \in SUBSET joined : FirstOfGroup(R)}
    IN UNION {{SeqMap(s, LAMBDA row : RpcItem(row, userId)) : s \in DescOrderings(R)}
                 : R \in picks}

\* The fallback select of getConversations: the raw rows, newest first
FallbackData(userId) ==
    {SeqMap(s, RawItem) : s \in DescOrderings({row \in Range(db) : InvolvesUser(row, userId)})}

\* Returns an empty list where the fallback select fails
SwallowedGetConversations(userId) ==
    IF userId = "none" THEN [answers : {<<>>}, data : {<<>>}, thrown : {""}]
    ELSE [answers : {<<"ok">>}, data : RpcConversations(userId), thrown : {""}]
         \cup [answers : {<<"rpc failed", "ok">>}, data : FallbackData(userId),
                thrown : {""}]
         \cup [answers : {<<"rpc failed", cause>> : cause \in Causes}, data : {<<>>},
                thrown : {""}]

\* getConversations(userId) of messageService.js: the answers of the store to
\* its requests, and what it returns (`data`) or throws (`thrown`, the
\* message of the error of the fallback select).
ServiceGetConversations(userId) ==
    IF userId = "none" THEN [answers : {<<>>}, data : {<<>>}, thrown : {""}]
    ELSE [answers : {<<"ok">>}, data : RpcConversations(userId), thrown : {""}]
         \cup [answers : {<<"rpc failed", "ok">>}, data : FallbackData(userId),
                thrown : {""}]
         \cup {[answers |-> <<"rpc failed", cause>>, data |-> <<>>, thrown |-> cause] :
                  cause \in Causes}

MessagesFetchConversations ==
    /\ aggScreen = "messages"
    /\ \E user \in ContextUsers :
          IF user = "none"
            THEN \* if (!user || !user.id)
                 /\ aggError' = "User not authenticated."
                 /\ aggFetch' = [ended |-> "early", answers |-> <<>>]
                 /\ UNCHANGED conversations
            ELSE \E result \in ServiceGetConversations(user) :
                    /\ aggFetch' = [ended |-> IF result.thrown = "" THEN "ok" ELSE "caught",
                                    answers |-> result.answers]
                    /\ conversations' = result.data
                    /\ aggError' = result.thrown
    /\ aggLoading' = FALSE
    /\ UNCHANGED <<storeVars, aggScreen, chatVars, prodVars, authVars, delVars, navVars>>

----------------------------------------------------------------------------
InitAgg ==
    /\ db = <<>>
    /\ products = Products
    /\ viewer \in Viewers
    /\ aggScreen \in {"tabs", "messages"}
    /\ conversations = <<>>
    /\ aggLoading = TRUE
    /\ aggError = ""
    /\ aggFetch = NoFetch
    /\ ChatIdle
    /\ ProductIdle
    /\ AuthIdle
    /\ DeleteIdle
    /\ NavIdle

vars == <<storeVars, aggVars, chatVars, prodVars, authVars, delVars, navVars>>

NextAgg ==
    \/ InsertMessage
    \/ DeleteProduct
    \/ TabsFetchConversations
    \/ MessagesFetchConversations

SpecAgg == InitAgg /\ [][NextAgg]_vars

----------------------------------------------------------------------------
\* Properties of the conversation list

\* A fetch of either screen that ended without an error
FetchSucceeded ==
    /\ aggFetch'.ended = "ok"
    /\ UNCHANGED storeVars
    /\ TabsFetchConversations \/ MessagesFetchConversations

TabsFetchSucceeded ==
    /\ aggFetch'.ended = "ok"
    /\ aggScreen = "tabs"
    /\ UNCHANGED storeVars
    /\ TabsFetchConversations

ViewerRows == {row \in Range(db) : InvolvesUser(row, viewer)}

GroupOf(other, product) ==
    {row \in ViewerRows : OtherUserId(row, viewer) = other /\ row.productId = product}

PairsOf(rows) == {<<OtherUserId(row, viewer), row.productId>> : row \in rows}

SummariesOf(list, pair) ==
    {i \in DOMAIN list : list[i].other = pair[1] /\ list[i].product = pair[2]}

OneSummaryPerPair(list) ==
    /\ \A pair \in PairsOf(ViewerRows) : Cardinality(SummariesOf(list, pair)) = 1
    /\ \A i \in DOMAIN list : <<list[i].other, list[i].product>> \in PairsOf(ViewerRows)

\* C1: every successful fetch of the conversation list leaves exactly one
\* summary for each (counterparty, product) pair of the viewer's messages in
\* the store: no pair twice, no pair missing, no entry for another pair.
C1_OneSummaryPerPair == [][FetchSucceeded => OneSummaryPerPair(conversations')]_vars

PreviewIsNewest(list) ==
    \A i \in DOMAIN list :
        \A row \in GroupOf(list[i].other, list[i].product) :
            list[i].lastMessageTime >= row.timestamp

\* C2 (first half): the preview of every summary of the "tabs" list carries
\* the largest timestamp of its group.
C2_PreviewIsNewest == [][TabsFetchSucceeded => PreviewIsNewest(conversations')]_vars

\* C2: the preview of every summary of the "tabs" list carries the largest
\* timestamp of its group, and every run of the fetch over the same rows
\* gives the list this run gave (the same message is chosen among equal
\* timestamps).
C2_PreviewNewestAndRepeatable ==
    [][TabsFetchSucceeded =>
          /\ PreviewIsNewest(conversations')
          /\ \A data \in GetConversationsData(viewer) :
                 GroupMessages(data, viewer) = conversations']_vars

\* A step of fetchConversations of the screen that is shown
FetchStep ==
    /\ UNCHANGED storeVars
    /\ TabsFetchConversations \/ MessagesFetchConversations

\* The store answered the last request of the fetch with an error
LastAnswerFailed(fetch) ==
    /\ fetch.answers # <<>>
    /\ fetch.answers[Len(fetch.answers)] # "ok"

C14_AbsentUserRefused ==
    [][(aggFetch'.ended = "early" /\ FetchStep) =>
          /\ aggError' = "User not authenticated."
          /\ aggFetch'.answers = <<>>
          /\ conversations' = conversations]_vars

SortedByTimeDesc(list) ==
    \A i, j \in DOMAIN list : i < j => list[i].lastMessageTime >= list[j].lastMessageTime

Triple(row) == <<row.senderId, row.receiverId, row.productId, row.timestamp>>

\* The scenario: viewer U1 with U1->U2 productA t=1, U2->U1 productA t=2,
\* U1->U3 productB t=3, both products in the store.
ScenarioInput ==
    /\ viewer = "U1"
    /\ products = {"productA", "productB"}
    /\ {Triple(row) : row \in ViewerRows} =
           {<<"U1", "U2", "productA", 1>>, <<"U2", "U1", "productA", 2>>,
            <<"U1", "U3", "productB", 3>>}

Brief(item) == <<item.other, item.product, item.lastMessageTime>>

ScenarioOutput(list) ==
    SeqMap(list, Brief) = <<(<<"U3", "productB", 3>>), (<<"U2", "productA", 2>>)>>

\* C3: every successful fetch of the "tabs" list leaves the summaries sorted
\* by preview timestamp, newest first; on the scenario's rows the list is
\* exactly (U3, productB, 3) followed by (U2, productA, 2).
C3_SortedNewestFirst ==
    [][TabsFetchSucceeded =>
          /\ SortedByTimeDesc(conversations')
          /\ ScenarioInput => ScenarioOutput(conversations')]_vars

\* The "tabs" list shows the scenario's two summaries over the scenario's rows
C3_ScenarioListed ==
    /\ aggScreen = "tabs"
    /\ ScenarioInput
    /\ ScenarioOutput(conversations)

----------------------------------------------------------------------------
\* Chat session: the thread and the store's side

\* Route params of the open chat: receiverId and productId
ReceiverId == "U2"
ProductId == "productA"

\* Who else writes about the product while the chat is open: the counterparty,
\* the viewer on another device, a third user to the viewer.
ChatCorrespondents == {<<"U2", "U1">>, <<"U1", "U2">>, <<"U3", "U1">>}

\* Text of the send box
Contents == {"", " ", "hello"}

\* String.prototype.trim on the texts of Contents
Trim(text) == IF text = " " THEN "" ELSE text

\* The filter of the message selects: the product and the pair, either way
InThread(row, userId, otherId, productId) ==
    /\ row.productId = productId
    /\ \/ row.senderId = userId /\ row.receiverId = otherId
       \/ row.senderId = otherId /\ row.receiverId = userId

\* The orders a store may return the rows of S in for ORDER BY timestamp ASC
AscOrderings(S) ==
    {s \in [1..Cardinality(S) -> S] :
        /\ \A i, j \in DOMAIN s : i # j => s[i] # s[j]
        /\ \A i, j \in DOMAIN s : i < j => s[i].timestamp <= s[j].timestamp}

\* getMessagesForConversation / getMessages: the possible `data` of the select
GetMessagesForConversation(currentUserId, otherUserId, productId) ==
    AscOrderings({row \in Range(db) : InThread(row, currentUserId, otherUserId, productId)})

\* filter: `productId=eq.${productId}` of the postgres_changes subscription
ChannelFilter(row) == row.productId = ProductId

\* The store commits a row and queues its INSERT event for the channel
Commit(row) ==
    /\ db' = Append(db, row)
    /\ feed' = IF subscribed > 0 /\ ChannelFilter(row) THEN Append(feed, row) ELSE feed

\* No row of Message is taken to reference the product
NeverReferenced(productId) == FALSE

\* Message.product, a required relation to Product with no onDelete: some row
\* of Message references the product
ReferencedByMessage(productId) ==
    \E i \in DOMAIN db : db[i].productId = productId

\* Message.productId references Product.id: the store takes a row only for a
\* product it holds
ProductHeld(productId) == productId \in products

\* Another client deletes the row of the product the chat is about.  The
\* store refuses the delete of a product that rows of Message reference.
DeleteProductRow ==
    /\ ProductHeld(ProductId)
    /\ ~ReferencedByMessage(ProductId)
    /\ products' = products \ {ProductId}
    /\ UNCHANGED <<db, viewer, aggVars, chatVars, prodVars, authVars, delVars, navVars>>

\* Another client inserts a message about the product
RemoteInsert ==
    /\ Len(db) < MaxMsgs
    /\ ProductHeld(ProductId)
    /\ \E pair \in ChatCorrespondents :
          Commit(NewRow(pair[1], pair[2], ProductId, "hi", LastTimestamp + 1))
    /\ UNCHANGED <<products, viewer, aggVars, prodVars, authVars, delVars, navVars>>
    /\ UNCHANGED <<scr, session, messages, loading, sending, chatError, lastSend,
                   subscribed, loads, sendReq>>

----------------------------------------------------------------------------
\* Chat session, "chat" version (ChatScreen over messageService.js)

notChat == <<products, viewer, aggVars, prodVars, authVars, delVars, navVars>>

\* mapMessageToGiftedChatMessage: {_id, text, createdAt, user._id}.  Every row
\* of the store has a senderId and a timestamp, so none maps to null.
MapMessageToGiftedChatMessage(message) ==
    [id |-> message.id, text |-> message.content,
     createdAt |-> message.timestamp, sender |-> message.senderId]

\* .sort((a, b) => b.createdAt - a.createdAt): a stable sort, newest first
SortNewestFirst(list) ==
    LET Insert(sorted, m) ==
            LET k == Cardinality({j \in DOMAIN sorted : sorted[j].createdAt >= m.createdAt})
            IN SubSeq(sorted, 1, k) \o <<m>> \o SubSeq(sorted, k + 1, Len(sorted))
        S[i \in 0..Len(list)] == IF i = 0 THEN <<>> ELSE Insert(S[i-1], list[i])
    IN S[Len(list)]

\* The new messages put after the current ones
AppendAtEnd(currentMessages, newMessages) == currentMessages \o newMessages

\* GiftedChat.append(currentMessages, messages) of the inverted list
GiftedAppend(currentMessages, newMessages) == newMessages \o currentMessages

\* The channel is left subscribed
KeepChannel(n) == n

\* supabase.removeChannel(channel) of the effect's cleanup
ChatCleanup(n) == n - 1

\* supabase.channel(...).on(...).subscribe()
Subscribe(n) == n + 1

NewLoad == [st |-> "issued", rows |-> <<>>]

RemoveAt(s, i) == SubSeq(s, 1, i - 1) \o SubSeq(s, i + 1, Len(s))

\* Every event of the channel is taken for the conversation
AnyPair(newMessage) == TRUE

\* isRelevant of the subscription callbacks
IsRelevant(newMessage) ==
    \/ newMessage.senderId = viewer /\ newMessage.receiverId = ReceiverId
    \/ newMessage.senderId = ReceiverId /\ newMessage.receiverId = viewer

\* The screen opens with its params: the effect starts the fetch and subscribes
MountChat ==
    /\ scr = "closed"
    /\ session < MaxSessions
    /\ scr' = "chat"
    /\ session' = session + 1
    /\ messages' = <<>>
    /\ loading' = TRUE
    /\ sending' = FALSE
    /\ chatError' = ""
    /\ loads' = <<NewLoad>>
    /\ subscribed' = Subscribe(subscribed)
    /\ feed' = <<>>
    /\ UNCHANGED <<db, notChat, lastSend, sendReq>>

\* The screen opens without receiverId or productId: the effect sets the
\* error and leaves (router.back) before it fetches or subscribes
MountChatMissingInfo ==
    /\ scr = "closed"
    /\ session < MaxSessions
    /\ session' = session + 1
    /\ chatError' = "Missing critical information to load chat."
    /\ UNCHANGED <<db, notChat, scr, messages, loading, sending, lastSend,
                   subscribed, feed, loads, sendReq>>

\* currentUser or currentUserProfile changes identity: cleanup, then the
\* effect runs again for the same thread
ChatEffectRerun ==
    /\ scr = "chat"
    /\ Len(loads) < MaxLoads
    /\ subscribed' = Subscribe(ChatCleanup(subscribed))
    /\ feed' = <<>>
    /\ loading' = TRUE
    /\ chatError' = ""
    /\ loads' = Append(loads, NewLoad)
    /\ UNCHANGED <<db, notChat, scr, session, messages, sending, lastSend, sendReq>>

\* currentUser becomes null (sign-out): cleanup, then the effect takes its
\* error exit
ChatEffectRerunMissingInfo ==
    /\ scr = "chat"
    /\ subscribed' = ChatCleanup(subscribed)
    /\ feed' = <<>>
    /\ chatError' = "Missing critical information to load chat."
    /\ scr' = "closed"
    /\ messages' = <<>>
    /\ loading' = TRUE
    /\ sending' = FALSE
    /\ loads' = <<>>
    /\ UNCHANGED <<db, notChat, session, lastSend, sendReq>>

\* Navigation away: the component unmounts, the cleanup runs
UnmountChat ==
    /\ scr = "chat"
    /\ subscribed' = ChatCleanup(subscribed)
    /\ feed' = <<>>
    /\ scr' = "closed"
    /\ messages' = <<>>
    /\ loading' = TRUE
    /\ sending' = FALSE
    /\ chatError' = ""
    /\ loads' = <<>>
    /\ UNCHANGED <<db, notChat, session, lastSend, sendReq>>

\* The store runs the select of a fetch in flight
LoadExecutes ==
    /\ \E i \in DOMAIN loads :
          /\ loads[i].st = "issued"
          /\ \E rows \in GetMessagesForConversation(viewer, ReceiverId, ProductId) :
                loads' = [loads EXCEPT ![i] = [st |-> "done", rows |-> rows]]
    /\ UNCHANGED <<db, notChat, scr, session, messages, loading, sending, chatError,
                   lastSend, subscribed, feed, sendReq>>

\* fetchMessages resumes with the rows
ChatLoadResponse ==
    /\ scr = "chat"
    /\ \E i \in DOMAIN loads :
          /\ loads[i].st = "done"
          /\ messages' = SortNewestFirst(SeqMap(loads[i].rows, MapMessageToGiftedChatMessage))
          /\ loads' = RemoveAt(loads, i)
    /\ loading' = FALSE
    /\ UNCHANGED <<db, notChat, scr, session, sending, chatError, lastSend,
                   subscribed, feed, sendReq>>

\* fetchMessages resumes with an error
ChatLoadFails ==
    /\ scr = "chat"
    /\ \E i \in DOMAIN loads :
          /\ loads[i].st = "issued"
          /\ loads' = RemoveAt(loads, i)
    /\ chatError' = "Could not load messages."
    /\ loading' = FALSE
    /\ UNCHANGED <<db, notChat, scr, session, messages, sending, lastSend,
                   subscribed, feed, sendReq>>

\* A send without the check of its fields
NoValidation(senderId, receiverId, productId, content) == TRUE

\* sendMessage of messageService.js: its check of the fields ('' is falsy)
ServiceSendMessageValid(senderId, receiverId, productId, content) ==
    senderId # "" /\ receiverId # "" /\ productId # "" /\ content # ""

\* A failed send that tells the user nothing
NoAlert(cause) == "none"

\* Alert.alert("Error", `Could not send message: ${error.message}`)
SendFailedAlert(cause) == "Could not send message: " \o cause

\* The send's component is still the mounted one
Live(req) == scr = "chat" /\ req.session = session

\* onSend(newMessages) with newMessages[0].text = content.  The input is
\* rendered once loading is over and no blocking error is shown; Send is
\* disabled while `sending`.
OnSend(content) ==
    /\ scr = "chat"
    /\ ~loading
    /\ ~(chatError # "" /\ messages = <<>>)
    /\ ~sending
    /\ sendReq.st = "none"
    /\ IF ServiceSendMessageValid(viewer, ReceiverId, ProductId, content)
         THEN /\ sendReq' = [st |-> "issued", content |-> content, id |-> 0,
                             session |-> session]
              /\ sending' = TRUE
              /\ lastSend' = "pending"
         ELSE /\ lastSend' = SendFailedAlert("Missing required message fields.")
              /\ UNCHANGED <<sending, sendReq>>
    /\ UNCHANGED <<db, notChat, scr, session, messages, loading, chatError,
                   subscribed, feed, loads>>

\* GiftedChat's Send hands onSend the trimmed text of the box
ChatSend == \E content \in Contents : OnSend(Trim(content))

\* The store runs the insert of the send in flight
InsertExecutes ==
    /\ sendReq.st = "issued"
    /\ Len(db) < MaxMsgs
    /\ ProductHeld(ProductId)
    /\ Commit(NewRow(viewer, ReceiverId, ProductId, sendReq.content, LastTimestamp + 1))
    /\ sendReq' = [sendReq EXCEPT !.st = "committed", !.id = Len(db) + 1]
    /\ UNCHANGED <<notChat, scr, session, messages, loading, sending, chatError, lastSend, subscribed, loads>>

\* onSend resumes with the inserted row
SendResponse ==
    /\ sendReq.st = "committed"
    /\ IF Live(sendReq)
         THEN /\ messages' = GiftedAppend(messages,
                                 <<MapMessageToGiftedChatMessage(db[sendReq.id])>>)
              /\ sending' = FALSE
         ELSE UNCHANGED <<messages, sending>>
    /\ lastSend' = "sent"
    /\ sendReq' = NoRequest
    /\ UNCHANGED <<db, notChat, scr, session, loading, chatError, subscribed,
                   feed, loads>>

\* onSend resumes with an error: the insert was refused, or its response lost
SendFails ==
    /\ sendReq.st \in {"issued", "committed"}
    /\ lastSend' = SendFailedAlert("insert failed")
    /\ sending' = IF Live(sendReq) THEN FALSE ELSE sending
    /\ sendReq' = NoRequest
    /\ UNCHANGED <<db, notChat, scr, session, messages, loading, chatError, subscribed,
                   feed, loads>>

\* The subscription callback of ChatScreen takes the next event
ChatDeliver ==
    /\ scr = "chat"
    /\ feed # <<>>
    /\ LET newMessage == Head(feed)
       IN messages' = IF IsRelevant(newMessage) /\ newMessage.senderId # viewer
                        THEN GiftedAppend(messages,
                                 <<MapMessageToGiftedChatMessage(newMessage)>>)
                      ELSE messages
    /\ feed' = Tail(feed)
    /\ UNCHANGED <<db, notChat, scr, session, loading, sending, chatError, lastSend, subscribed, loads, sendReq>>

----------------------------------------------------------------------------
\* Chat session, "detail" version (ChatDetailScreen).  The module imports
\* getMessages and sendMessage only: `supabase` of the effect is bound only if
\* something outside the module binds it, and the component's own
\* `const sendMessage` is the sendMessage its handler calls.

\* A row as the FlatList shows it
DetailEntry(row) ==
    [id |-> row.id, text |-> row.content, createdAt |-> row.timestamp,
     sender |-> row.senderId]

\* subscription.unsubscribe() of the effect's cleanup
DetailCleanup(n) == n - 1

\* The screen opens: fetchMessages() starts, the effect subscribes
MountDetail ==
    /\ scr = "closed"
    /\ session < MaxSessions
    /\ scr' = "detail"
    /\ session' = session + 1
    /\ messages' = <<>>
    /\ loading' = TRUE
    /\ sending' = FALSE
    /\ chatError' = ""
    /\ loads' = <<NewLoad>>
    /\ subscribed' = Subscribe(subscribed)
    /\ feed' = <<>>
    /\ UNCHANGED <<db, notChat, lastSend, sendReq>>

\* The screen opens and `supabase` is not bound: the effect throws after
\* fetchMessages() has started, and the screen is torn down
MountDetailUnbound ==
    /\ scr = "closed"
    /\ session < MaxSessions
    /\ session' = session + 1
    /\ chatError' = "supabase is not defined"
    /\ UNCHANGED <<db, notChat, scr, messages, loading, sending, lastSend,
                   subscribed, feed, loads, sendReq>>

UnmountDetail ==
    /\ scr = "detail"
    /\ subscribed' = DetailCleanup(subscribed)
    /\ feed' = <<>>
    /\ scr' = "closed"
    /\ messages' = <<>>
    /\ loading' = TRUE
    /\ sending' = FALSE
    /\ chatError' = ""
    /\ loads' = <<>>
    /\ UNCHANGED <<db, notChat, session, lastSend, sendReq>>

\* fetchMessages resumes with {data, error: null}
DetailLoadResponse ==
    /\ scr = "detail"
    /\ \E i \in DOMAIN loads :
          /\ loads[i].st = "done"
          /\ messages' = SeqMap(loads[i].rows, DetailEntry)
          /\ loads' = RemoveAt(loads, i)
    /\ loading' = FALSE
    /\ UNCHANGED <<db, notChat, scr, session, sending, chatError, lastSend,
                   subscribed, feed, sendReq>>

\* fetchMessages resumes with {data: null, error}
DetailLoadFails ==
    /\ scr = "detail"
    /\ \E i \in DOMAIN loads :
          /\ loads[i].st = "issued"
          /\ loads' = RemoveAt(loads, i)
    /\ chatError' = "Could not load messages"
    /\ loading' = FALSE
    /\ UNCHANGED <<db, notChat, scr, session, messages, sending, lastSend,
                   subscribed, feed, sendReq>>

\* The component's sendMessage with newMessage = content.  Past the trim
\* check it awaits sendMessage(messageData), which is itself: the calls nest
\* until the stack is exhausted and every one of them ends in its catch.  No
\* insert is requested and setMessages is not reached.
DetailSendMessage(content) ==
    /\ scr = "detail"
    /\ ~loading
    /\ ~sending
    /\ IF Trim(content) = ""
         THEN lastSend' = "ignored"
         ELSE lastSend' = "Could not send message"
    /\ UNCHANGED <<db, notChat, scr, session, messages, loading, sending, chatError,
                   subscribed, feed, loads, sendReq>>

DetailSend == \E content \in Contents : DetailSendMessage(content)

\* The subscription callback of ChatDetailScreen takes the next event
DetailDeliver ==
    /\ scr = "detail"
    /\ feed # <<>>
    /\ LET newMsg == Head(feed)
       IN messages' = IF IsRelevant(newMsg)
                        THEN Append(messages, DetailEntry(newMsg))
                      ELSE messages
    /\ feed' = Tail(feed)
    /\ UNCHANGED <<db, notChat, scr, session, loading, sending, chatError, lastSend, subscribed, loads, sendReq>>

----------------------------------------------------------------------------
InitChat ==
    /\ db = <<>>
    /\ products = Products
    /\ viewer = "U1"
    /\ AggIdle
    /\ ChatIdle
    /\ ProductIdle
    /\ AuthIdle
    /\ DeleteIdle
    /\ NavIdle

NextChat ==
    \/ RemoteInsert
    \/ DeleteProductRow
    \/ MountChat
    \/ MountChatMissingInfo
    \/ ChatEffectRerun
    \/ ChatEffectRerunMissingInfo
    \/ UnmountChat
    \/ LoadExecutes
    \/ ChatLoadResponse
    \/ ChatLoadFails
    \/ ChatSend
    \/ InsertExecutes
    \/ SendResponse
    \/ SendFails
    \/ ChatDeliver
    \/ MountDetail
    \/ MountDetailUnbound
    \/ UnmountDetail
    \/ DetailLoadResponse
    \/ DetailLoadFails
    \/ DetailSend
    \/ DetailDeliver

SpecChat == InitChat /\ [][NextChat]_vars

----------------------------------------------------------------------------
\* Properties of the chat session

\* C4: the view never holds two entries with the id of one message the
\* viewer sent, whichever way the send's response, the fetches and the
\* realtime events interleave.
C4_OwnMessageShownOnce ==
    \A i, j \in DOMAIN messages :
        messages[i].sender = viewer /\ messages[i].id = messages[j].id => i = j

\* onSend has resumed with the row of its insert, in the component that sent
SendSucceeded == SendResponse /\ Live(sendReq)

\* C5: when a send of ChatScreen succeeds, the newest entry of the view (the
\* head of the inverted list) is the sent message: its text is the content
\* sent and its sender the viewer, whether or not the event of that insert
\* has been taken from the channel.
C5_SentMessageIsNewest ==
    [][SendSucceeded =>
          /\ messages' # <<>>
          /\ messages'[1].id = sendReq.id
          /\ messages'[1].text = sendReq.content
          /\ messages'[1].text # ""
          /\ messages'[1].sender = viewer]_vars

\* The sent "hello" heads the view while the event of its insert still waits
C5_SentBeforeEcho ==
    /\ scr = "chat"
    /\ lastSend = "sent"
    /\ messages # <<>>
    /\ messages[1].text = "hello"
    /\ messages[1].sender = viewer
    /\ \E k \in DOMAIN feed : feed[k].id = messages[1].id

\* C6: the view is in timestamp order in every state: newest first in
\* ChatScreen's inverted list, oldest first in ChatDetailScreen's list.
C6_ViewChronological ==
    \A i, j \in DOMAIN messages :
        i < j => IF scr = "chat"
                   THEN messages[i].createdAt >= messages[j].createdAt
                   ELSE messages[i].createdAt <= messages[j].createdAt

\* A send handler is called with the empty text
EmptySend == OnSend("") \/ DetailSendMessage("")

ValidationAlert == "Could not send message: Missing required message fields."

DetailSendThrows == \E content \in Contents : Trim(content) # "" /\ DetailSendMessage(content)

\* C8: when the insert of a send fails, the failure is shown to the user and
\* the view is what it was before the send; the sending flag of the
\* component that sent is cleared.
C8_FailedSendLeavesView ==
    [][/\ SendFails =>
              /\ messages' = messages
              /\ lastSend' = "Could not send message: insert failed"
              /\ Live(sendReq) => ~sending'
       /\ DetailSendThrows =>
              /\ messages' = messages
              /\ lastSend' = "Could not send message"
              /\ ~sending']_vars

\* A send of ChatScreen has failed over a view that shows a message
C8_SendFailedShown ==
    /\ scr = "chat"
    /\ lastSend = "Could not send message: insert failed"
    /\ messages # <<>>
    /\ ~sending

\* C9: at most one channel is subscribed, and none once the chat screen is
\* closed, whichever way it was left.
C9_ChannelReleased ==
    /\ subscribed \in {0, 1}
    /\ scr = "closed" => subscribed = 0

\* The chat was left while its send was in flight, and no channel remains
C9_LeftWhileSending ==
    /\ scr = "closed"
    /\ sendReq.st = "issued"
    /\ subscribed = 0

----------------------------------------------------------------------------
\* Add product: AddProductScreen.js holds the version that stores the image
\* in the Product row ("v1") and the version that uploads it to storage
\* ("v2"); unnamed/part_007 is the version over productService.addProduct
\* ("v3").

notProduct == <<db, viewer, aggVars, chatVars, authVars, delVars, navVars>>

Roles == {"none", "buyer", "seller"}
AddScreens == {"v1", "v2", "v3"}

\* A screen that renders its form for every profile
NoGate(role) == TRUE

\* if (profile?.role !== 'seller') return <not authorized> of part_007
AuthorizedToAdd(role) == role = "seller"

\* if (profile?.role !== 'seller') return <sellers only> of AddProductScreen.js
SellersOnly(role) == role = "seller"

\* if (!profile || profile.role !== 'seller') of handleAddProduct
HandlerRoleOk(role) == role # "none" /\ role = "seller"

FormRendered(screen, role) ==
    IF screen = "v3" THEN AuthorizedToAdd(role) ELSE SellersOnly(role)

\* What the render shows instead of the form
GateText(screen) ==
    IF screen = "v3" THEN "You are not authorized to add products."
    ELSE "This page is for sellers only."

\* What a render of `screen` for `role` shows; part_007 also leaves
\* (router.back / router.replace) when it does not render the form
Rendered(screen, role) == IF FormRendered(screen, role) THEN "" ELSE GateText(screen)

StaysOpen(screen, role) == screen # "v3" \/ FormRendered(screen, role)

\* The auth context takes another profile (sign-in, sign-out, profile
\* resolved); a mounted screen renders again
AuthChanges ==
    /\ \E role \in Roles \ {profileRole} :
          /\ profileRole' = role
          /\ IF addScreen = "closed"
               THEN UNCHANGED <<addScreen, addResult>>
               ELSE /\ addResult' = Rendered(addScreen, role)
                    /\ addScreen' = IF StaysOpen(addScreen, role) THEN addScreen
                                    ELSE "closed"
    /\ UNCHANGED <<notProduct, products, addStep, requests>>

\* The user opens an add-product screen
OpenAddProduct ==
    /\ addScreen = "closed"
    /\ \E screen \in AddScreens :
          /\ addResult' = Rendered(screen, profileRole)
          /\ addScreen' = IF StaysOpen(screen, profileRole) THEN screen ELSE "closed"
    /\ UNCHANGED <<notProduct, products, profileRole, addStep, requests>>

\* Go Home, or back
CloseAddProduct ==
    /\ addScreen # "closed"
    /\ addScreen' = "closed"
    /\ UNCHANGED <<notProduct, products, profileRole, addStep, addResult, requests>>

Request(kind) == [kind |-> kind, screen |-> addScreen, role |-> profileRole]

\* The Add Product button of a rendered form is pressed and no handler runs
CanPress(screen) ==
    /\ addScreen = screen
    /\ FormRendered(screen, profileRole)
    /\ addStep = Idle
    /\ Len(requests) < MaxRequests

\* handleAddProduct of "v1": the fields, the role, then the insert
HandleAddProductDb ==
    /\ CanPress("v1")
    /\ \E fieldsFilled \in BOOLEAN :
          IF ~fieldsFilled
            THEN addResult' = "Missing Information" /\ UNCHANGED <<addStep, requests>>
          ELSE IF ~HandlerRoleOk(profileRole)
            THEN addResult' = "Unauthorized" /\ UNCHANGED <<addStep, requests>>
          ELSE /\ requests' = Append(requests, Request("insert"))
               /\ addStep' = [at |-> "inserting", role |-> profileRole]
               /\ UNCHANGED addResult
    /\ UNCHANGED <<notProduct, products, profileRole, addScreen>>

\* handleAddProduct of "v2": the fields, the role, then the upload
HandleAddProductStorage ==
    /\ CanPress("v2")
    /\ \E fieldsFilled \in BOOLEAN :
          IF ~fieldsFilled
            THEN addResult' = "Missing Information" /\ UNCHANGED <<addStep, requests>>
          ELSE IF ~HandlerRoleOk(profileRole)
            THEN addResult' = "Unauthorized" /\ UNCHANGED <<addStep, requests>>
          ELSE /\ requests' = Append(requests, Request("upload"))
               /\ addStep' = [at |-> "uploading", role |-> profileRole]
               /\ UNCHANGED addResult
    /\ UNCHANGED <<notProduct, products, profileRole, addScreen>>

notUpload == <<db, viewer, aggVars, chatVars, authVars, delStep, delAlerts, navVars>>

\* error.message of a failed insert, as the sequence of its words: the row
\* is refused by a policy, or the request does not reach the server
DbErrors ==
    {<<"new", "row", "violates", "row-level", "security", "policy">>,
     <<"Network", "request", "failed">>}

\* String.prototype.includes on texts kept as sequences of words
Includes(text, part) ==
    \E i \in 1..(Len(text) - Len(part) + 1) : SubSeq(text, i, i + Len(part) - 1) = part

\* The bucket after the catch of handleAddProduct: the image is removed
\* (or the remove fails, unseen) when there is an imageUrl and the message
\* of the error includes 'Failed to add product'
AfterCatch(imageUrl, message) ==
    IF imageUrl # <<>> /\ Includes(message, <<"Failed", "to", "add", "product">>)
      THEN {storage, storage \ {imageUrl}}
      ELSE {storage}

\* The upload answers: on success the object is in the bucket and the
\* handler goes on to the insert
UploadResponds ==
    /\ addStep.at = "uploading"
    /\ \/ /\ requests' = Append(requests, [kind |-> "insert", screen |-> "v2",
                                             role |-> addStep.role])
          /\ addStep' = [addStep EXCEPT !.at = "inserting"]
          /\ storage' = storage \cup {NewImage}
          /\ UNCHANGED addResult
       \/ /\ addResult' = "Failed to add product"
          /\ addStep' = Idle
          /\ storage' \in AfterCatch(<<>>, <<"Upload", "failed">>)
          /\ UNCHANGED requests
    /\ UNCHANGED <<notUpload, products, profileRole, addScreen>>

\* The insert answers: Success and router.back(), or the error alert and
\* the catch
InsertResponds ==
    /\ addStep.at = "inserting"
    /\ \/ /\ products' = products \cup {"productNew"}
          /\ addResult' = "Success"
          /\ addScreen' = "closed"
          /\ UNCHANGED storage
       \/ /\ addResult' = "Failed to add product"
          /\ \E message \in DbErrors :
                storage' \in AfterCatch(IF requests[Len(requests)].screen = "v2"
                                          THEN NewImage ELSE <<>>, message)
          /\ UNCHANGED <<products, addScreen>>
    /\ addStep' = Idle
    /\ UNCHANGED <<notUpload, profileRole, requests>>

\* handleSubmit of "v3": the fields, then addProduct of productService.js,
\* which sends nothing and returns a mock product
HandleSubmit ==
    /\ CanPress("v3")
    /\ \E fieldsFilled \in BOOLEAN :
          IF ~fieldsFilled
            THEN addResult' = "Missing Fields" /\ UNCHANGED addScreen
            ELSE addResult' = "Success" /\ addScreen' = "closed"
    /\ UNCHANGED <<notProduct, products, profileRole, addStep, requests>>

InitProduct ==
    /\ db = <<>>
    /\ products = Products
    /\ viewer = "U1"
    /\ AggIdle
    /\ ChatIdle
    /\ ProductIdle
    /\ AuthIdle
    /\ DeleteIdle
    /\ NavIdle

NextProduct ==
    \/ AuthChanges
    \/ OpenAddProduct
    \/ CloseAddProduct
    \/ HandleAddProductDb
    \/ HandleAddProductStorage
    \/ UploadResponds
    \/ InsertResponds
    \/ HandleSubmit

SpecProduct == InitProduct /\ [][NextProduct]_vars

----------------------------------------------------------------------------
\* Properties of the add-product screens

\* A profile that is not a seller opens a screen or presses its button
NonSellerAttempt ==
    /\ profileRole # "seller"
    /\ OpenAddProduct \/ HandleAddProductDb \/ HandleAddProductStorage \/ HandleSubmit

UnauthorizedShown ==
    {"Unauthorized", "This page is for sellers only.",
     "You are not authorized to add products."}

\* C10: when a profile that is not a seller (a buyer, or none) attempts to
\* add a product, it is shown that it is not authorized and nothing is
\* requested; every upload and every insert into Product that is requested
\* comes from a press made with a seller's profile.
C10_NonSellerRefused ==
    [][/\ NonSellerAttempt =>
              /\ addResult' \in UnauthorizedShown
              /\ requests' = requests
              /\ products' = products
              /\ addStep' = addStep
       /\ requests' # requests => requests'[Len(requests')].role = "seller"]_vars

\* A buyer has opened the database-image screen and is shown the refusal
C10_BuyerRefused ==
    /\ profileRole = "buyer"
    /\ addScreen = "v1"
    /\ addResult = "This page is for sellers only."
    /\ requests = <<>>


----------------------------------------------------------------------------
\* The auth provider (contexts/AuthContext.js) and the layouts it gates

MaxAuthEvents == 2  \* auth state changes delivered to the listener

NewUser == "U9"     \* the id the auth service gives the account of a sign-up

\* supabase.js getUserProfile: the row of the user, null when there is none
\* or when the select fails
GetUserProfile(userId) == {userTable[userId], "none"}

notAuth == <<storeVars, aggVars, chatVars, addScreen, addStep, addResult, requests, delVars, navVars>>

signupVars == <<signupScreen, signupStep, signupRole, signupAlert, backendCalls,
                timerArmed, accounts, userTable>>

\* fetchSession, up to the answer of supabase.auth.getSession()
GetSessionResponds ==
    /\ initStep = "getSession"
    /\ \/ \* error, or exception: everything is cleared
          /\ authSession' = "none"
          /\ profileRole' = "none"
          /\ authLoading' = FALSE
          /\ initialLoading' = FALSE
          /\ initStep' = "done"
          /\ UNCHANGED fetches
       \/ /\ authSession' = storedSession
          /\ IF storedSession # "none"
               THEN /\ initStep' = "profile"
                    /\ authLoading' = TRUE
                    /\ fetches' = fetches \cup {[user |-> storedSession, n |-> 0]}
                    /\ UNCHANGED <<profileRole, initialLoading>>
               ELSE /\ profileRole' = "none"
                    /\ authLoading' = FALSE
                    /\ initialLoading' = FALSE
                    /\ initStep' = "done"
                    /\ UNCHANGED fetches
    /\ UNCHANGED <<notAuth, storedSession, platformOS, authEvents, signupVars>>

\* fetchSession with setInitialLoading(false) at the end of its try, reached
\* only with a profile, instead of in its finally
InitProfileRespondsNoFinally ==
    /\ initStep = "profile"
    /\ \E f \in fetches :
          /\ f.n = 0
          /\ profileRole' \in GetUserProfile(f.user)
          /\ fetches' = fetches \ {f}
    /\ authLoading' = FALSE
    /\ initialLoading' = (profileRole' = "none")
    /\ initStep' = "done"
    /\ UNCHANGED <<notAuth, authSession, storedSession, platformOS, authEvents,
                   signupVars>>

\* fetchSession, from the answer of its getUserProfile to the end of finally
InitProfileResponds ==
    /\ initStep = "profile"
    /\ \E f \in fetches :
          /\ f.n = 0
          /\ profileRole' \in GetUserProfile(f.user)
          /\ fetches' = fetches \ {f}
    /\ authLoading' = FALSE
    /\ initialLoading' = FALSE
    /\ initStep' = "done"
    /\ UNCHANGED <<notAuth, authSession, storedSession, platformOS, authEvents,
                   signupVars>>

\* The onAuthStateChange callback, up to its await
OnAuthStateChange(newSession) ==
    /\ authSession' = newSession
    /\ IF newSession # "none"
         THEN /\ authLoading' = TRUE
              /\ fetches' = fetches \cup {[user |-> newSession, n |-> authEvents + 1]}
              /\ UNCHANGED profileRole
         ELSE /\ profileRole' = "none"
              /\ authLoading' = FALSE
              /\ UNCHANGED fetches

\* The auth client signs in, refreshes or signs out, and tells the listener
AuthEvent ==
    /\ authEvents < MaxAuthEvents
    /\ \E newSession \in {storedSession, "none"} \cup accounts :
          /\ storedSession' = newSession
          /\ OnAuthStateChange(newSession)
    /\ authEvents' = authEvents + 1
    /\ UNCHANGED <<notAuth, initialLoading, initStep, platformOS, signupVars>>

\* The onAuthStateChange callback, from the answer of getUserProfile
ListenerProfileResponds ==
    /\ \E f \in fetches :
          /\ f.n > 0
          /\ profileRole' \in GetUserProfile(f.user)
          /\ fetches' = fetches \ {f}
    /\ authLoading' = FALSE
    /\ UNCHANGED <<notAuth, authSession, initialLoading, initStep, storedSession,
                   platformOS, authEvents, signupVars>>

\* <AuthContext.Provider>{!initialLoading && children}
ProviderRendersChildren == ~initialLoading

\* Asks for a session only, not for a profile
SessionOnlyLayout ==
    IF initialLoading \/ authLoading THEN "null"
    ELSE IF authSession = "none" THEN "login"
    ELSE "stack"

\* Shows every child whatever the provider's flags are
AlwaysStack == "stack"

\* (app)/_layout.js AppLayout
AppLayout ==
    IF initialLoading \/ authLoading THEN "null"
    ELSE IF authSession = "none" \/ profileRole = "none" THEN "login"
    ELSE "stack"

\* The effect of InitialLayout for the first segment of the route: where it
\* sends the router ("stay" = nowhere)
InitialLayoutEffect(segment) ==
    IF initialLoading THEN "stay"
    ELSE IF authSession # "none" /\ profileRole # "none"
      THEN IF segment \in {"(auth)", "", "index"} THEN "home" ELSE "stay"
    ELSE IF authSession = "none"
      THEN IF segment = "(app)" THEN "login" ELSE "stay"
    ELSE IF ~authLoading
      THEN IF segment = "(app)" THEN "login" ELSE "stay"
    ELSE "stay"

\* (app)/(tabs)/_layout.js TabLayout
TabLayout == IF profileRole = "none" THEN "login" ELSE "tabs"

\* headerRight of the home and products tabs; Platform is not imported there
HeaderRight ==
    IF profileRole # "seller" THEN "null"
    ELSE IF platformOS = "unbound" THEN "ReferenceError"
    ELSE IF platformOS # "web" THEN "Add New"
    ELSE "null"

IsSeller == profileRole = "seller"
IsBuyer == profileRole = "buyer"


----------------------------------------------------------------------------
\* Sign-up: "v1" is screens/SignupScreen.js with AuthContext.handleSignUp and
\* supabase.js signUp; "v2" is unnamed/part_003, which calls the auth client
\* and createUserProfile itself.  Texts are sequences of characters.

MaxCalls == 2       \* requests the sign-up handlers issue in one behaviour

Digits == {"0", "1", "2", "3", "4", "5", "6", "7", "8", "9"}
PhoneChars == Digits \cup {" ", "-", "(", ")"}

\* isValidPhone: /^\+?[0-9\s-()]{7,15}$/
IsValidPhone(phone) ==
    LET body == IF phone # <<>> /\ Head(phone) = "+" THEN Tail(phone) ELSE phone
    IN  /\ Len(body) >= 7
        /\ Len(body) <= 15
        /\ \A i \in DOMAIN body : body[i] \in PhoneChars

\* isValidEmail: /^[^\s@]+@[^\s@]+\.[^\s@]+$/
IsValidEmail(email) ==
    \E i, j \in DOMAIN email :
        /\ 1 < i /\ i + 1 < j /\ j < Len(email)
        /\ email[i] = "@"
        /\ email[j] = "."
        /\ \A k \in DOMAIN email : k # i => email[k] \notin {"@", " "}

Names == {"", "Asha"}
Phones == {<<>>, <<"1", "2", "3">>, <<"+", "2", "5", "5", " ", "7", "1", "-", "2">>,
           <<"p", "h", "o", "n", "e", "1", "2", "3">>}
Emails == {<<>>, <<"a", "@", "b", ".", "c">>, <<"a", "b", ".", "c">>}
Passwords == {<<>>, <<"z", "a", "b", "i", "b">>, <<"z", "a", "b", "i", "b", "u">>}
Forms == [fullName : Names, phone : Phones, email : Emails, password : Passwords,
          confirmPassword : Passwords]

\* The Picker of both screens always holds one of the two roles
PickerRoles == {"buyer", "seller"}

\* SignupScreen.js has no email field, part_003 no confirmation field
FormsV1 == {form \in Forms : form.email = <<>>}
FormsV2 == {form \in Forms : form.confirmPassword = <<>>}

\* Lets every form through
AcceptAll(form) == ""

\* What handleSignup of SignupScreen.js alerts for a form, "" when it goes on
ValidateV1(form) ==
    IF form.fullName = "" \/ form.phone = <<>> \/ form.password = <<>>
           \/ form.confirmPassword = <<>>
      THEN "Please fill in all fields."
    ELSE IF ~IsValidPhone(form.phone)
      THEN "Please enter a valid phone number (e.g., +255xxxxxxxxx)."
    ELSE IF Len(form.password) < 6
      THEN "Password must be at least 6 characters long."
    ELSE IF form.password # form.confirmPassword
      THEN "Passwords do not match."
    ELSE ""

\* What handleSignup of part_003 alerts for a form, "" when it goes on
ValidateV2(form) ==
    IF form.fullName = "" \/ form.password = <<>>
      THEN "Please fill in all fields: Full Name, Password, and Role."
    ELSE IF form.email = <<>> /\ form.phone = <<>>
      THEN "Please provide either an Email or a Phone Number."
    ELSE IF form.email # <<>> /\ ~IsValidEmail(form.email)
      THEN "Please enter a valid email address."
    ELSE IF form.phone # <<>> /\ ~IsValidPhone(form.phone)
      THEN "Please enter a valid phone number (e.g., +255xxxxxxxxx)."
    ELSE IF Len(form.password) < 6
      THEN "Password must be at least 6 characters long."
    ELSE ""

notSignup == <<notAuth, authSession, initialLoading, initStep, fetches, platformOS,
               authEvents>>

\* The login / sign-up screens are what a signed-out user is shown
OpenSignup ==
    /\ signupScreen = "closed"
    /\ ~initialLoading
    /\ authSession = "none"
    /\ signupScreen' \in {"v1", "v2"}
    /\ UNCHANGED <<notSignup, profileRole, authLoading, storedSession, signupStep,
                   signupRole, signupAlert, backendCalls, timerArmed, accounts,
                   userTable>>

\* SignupScreen.js handleSignup up to `await signUp(userData)`, through
\* AuthContext.handleSignUp and supabase.js signUp to their first await
HandleSignupV1(form) ==
    /\ signupScreen = "v1"
    /\ signupStep = "idle"
    /\ IF ValidateV1(form) # ""
         THEN /\ signupAlert' = ValidateV1(form)
              /\ UNCHANGED <<signupStep, signupRole, backendCalls, authLoading>>
         ELSE /\ Len(backendCalls) < MaxCalls
              /\ signupStep' = "auth"
              /\ signupRole' \in PickerRoles
              /\ backendCalls' = Append(backendCalls, "auth.signUp")
              /\ authLoading' = TRUE
              /\ signupAlert' = ""
    /\ UNCHANGED <<notSignup, profileRole, storedSession, timerArmed, accounts,
                   userTable, signupScreen>>

\* part_003 handleSignup up to `await supabase.auth.signUp(signupCredentials)`;
\* one handler at a time is followed
HandleSignupV2(form) ==
    /\ signupScreen = "v2"
    /\ signupStep = "idle"
    /\ IF ValidateV2(form) # ""
         THEN /\ signupAlert' = ValidateV2(form)
              /\ UNCHANGED <<signupStep, signupRole, backendCalls>>
         ELSE /\ Len(backendCalls) < MaxCalls
              /\ signupStep' = "auth"
              /\ signupRole' \in PickerRoles
              /\ backendCalls' = Append(backendCalls, "auth.signUp")
              /\ signupAlert' = ""
    /\ UNCHANGED <<notSignup, profileRole, authLoading, storedSession, timerArmed,
                   accounts, userTable, signupScreen>>


\* AuthContext.handleSignUp after `await signUp(userData)` (the refresh timer
\* and finally), then SignupScreen.js handleSignup lines 58-68 for a result
\* without error
V1Return ==
    /\ authLoading' = FALSE
    /\ timerArmed' = TRUE
    /\ signupAlert' = "Signup Successful!"
    /\ signupStep' = "idle"

\* The answer of supabase.auth.signUp.  On success the account exists, the
\* database trigger has or has not written the profile row, and the client
\* may hold a session for the new user.
AuthSignUpResponds ==
    /\ signupStep = "auth"
    /\ \/ \* error (an account for the phone exists, network, ...)
          /\ signupAlert' = "Signup Failed"
          /\ signupStep' = "idle"
          /\ authLoading' = IF signupScreen = "v1" THEN FALSE ELSE authLoading
          /\ UNCHANGED <<accounts, userTable, storedSession, backendCalls, timerArmed>>
       \/ /\ NewUser \notin accounts
          /\ accounts' = accounts \cup {NewUser}
          /\ userTable' \in {userTable, [userTable EXCEPT ![NewUser] = signupRole]}
          /\ storedSession' \in {storedSession, NewUser}
          /\ IF signupScreen = "v1"
               THEN \/ \* data.user.phone_confirmed_at is set: no check
                       /\ V1Return
                       /\ UNCHANGED backendCalls
                    \/ /\ signupStep' = "check"
                       /\ UNCHANGED <<signupAlert, authLoading, backendCalls, timerArmed>>
               ELSE /\ signupStep' = "create"
                    /\ backendCalls' = Append(backendCalls, "User.insert")
                    /\ UNCHANGED <<signupAlert, authLoading, timerArmed>>
    /\ UNCHANGED <<notSignup, profileRole, signupScreen, signupRole>>

\* supabase.js signUp from the answer of its getUserProfile (lines 147-157)
SignupCheckResponds ==
    /\ signupStep = "check"
    /\ \E profile \in GetUserProfile(NewUser) :
          IF profile # "none"
            THEN V1Return /\ UNCHANGED backendCalls
            ELSE /\ signupStep' = "create"
                 /\ backendCalls' = Append(backendCalls, "User.insert")
                 /\ UNCHANGED <<signupAlert, authLoading, timerArmed>>
    /\ UNCHANGED <<notSignup, profileRole, storedSession, signupScreen, signupRole,
                   accounts, userTable>>

\* The answer of createUserProfile: the row when the insert succeeded (there is
\* no row for the id yet), null otherwise
CreateProfileResponds ==
    /\ signupStep = "create"
    /\ \E newProfile \in {"none"} \cup
                         (IF userTable[NewUser] = "none" THEN {signupRole} ELSE {}) :
          /\ userTable' = IF newProfile = "none" THEN userTable
                          ELSE [userTable EXCEPT ![NewUser] = newProfile]
          /\ IF signupScreen = "v1"
               THEN V1Return /\ UNCHANGED profileRole
               ELSE /\ signupStep' = "idle"
                    /\ UNCHANGED <<authLoading, timerArmed>>
                    /\ IF newProfile # "none"
                         THEN /\ profileRole' = newProfile
                              /\ signupAlert' = "Signup Successful!"
                         ELSE /\ signupAlert' = "Signup Succeeded but Profile Creation Failed"
                              /\ UNCHANGED profileRole
    /\ UNCHANGED <<notSignup, storedSession, signupScreen, signupRole, backendCalls,
                   accounts>>

\* The setTimeout callback of AuthContext.handleSignUp
TimerFires ==
    /\ timerArmed
    /\ timerArmed' = FALSE
    /\ profileRole' \in GetUserProfile(NewUser)
    /\ UNCHANGED <<notSignup, authLoading, storedSession, signupScreen, signupStep,
                   signupRole, signupAlert, backendCalls, accounts, userTable>>

InitAuth ==
    /\ db = <<>>
    /\ products = Products
    /\ viewer = "U1"
    /\ AggIdle
    /\ ChatIdle
    /\ ProductIdle
    /\ DeleteIdle
    /\ NavIdle
    /\ authSession = "none"
    /\ authLoading = TRUE
    /\ initialLoading = TRUE
    /\ initStep = "getSession"
    /\ storedSession \in {"none", "U1"}
    /\ fetches = {}
    /\ userTable \in {[u \in AuthUsers |-> IF u = "U1" THEN r ELSE "none"] :
                        r \in {"seller", "buyer", "none"}}
    /\ platformOS \in {"ios", "web", "unbound"}
    /\ authEvents = 0
    /\ signupScreen = "closed"
    /\ signupStep = "idle"
    /\ signupRole = "none"
    /\ signupAlert = ""
    /\ backendCalls = <<>>
    /\ timerArmed = FALSE
    /\ accounts = {"U1"}

\* The provider from its construction, with the auth client's events
NextAuth ==
    \/ GetSessionResponds
    \/ InitProfileResponds
    \/ AuthEvent
    \/ ListenerProfileResponds

SpecAuth == InitAuth /\ [][NextAuth]_vars

\* A signed-out user after the provider's initial session check
InitSignup ==
    /\ db = <<>>
    /\ products = Products
    /\ viewer = "U1"
    /\ AggIdle
    /\ ChatIdle
    /\ ProductIdle
    /\ DeleteIdle
    /\ NavIdle
    /\ authSession = "none"
    /\ authLoading = FALSE
    /\ initialLoading = FALSE
    /\ initStep = "done"
    /\ storedSession = "none"
    /\ fetches = {}
    /\ userTable = [u \in AuthUsers |-> IF u = "U1" THEN "seller" ELSE "none"]
    /\ platformOS = "ios"
    /\ authEvents = 0
    /\ signupScreen = "closed"
    /\ signupStep = "idle"
    /\ signupRole = "none"
    /\ signupAlert = ""
    /\ backendCalls = <<>>
    /\ timerArmed = FALSE
    /\ accounts = {"U1"}

NextSignup ==
    \/ OpenSignup
    \/ \E form \in FormsV1 : HandleSignupV1(form)
    \/ \E form \in FormsV2 : HandleSignupV2(form)
    \/ AuthSignUpResponds
    \/ SignupCheckResponds
    \/ CreateProfileResponds
    \/ TimerFires
    \/ AuthEvent
    \/ ListenerProfileResponds

SpecSignup == InitSignup /\ [][NextSignup]_vars


----------------------------------------------------------------------------
\* Properties of the auth provider and the layouts

\* The "Add New" header button of the tabs is on screen
AddNewShown ==
    /\ ProviderRendersChildren
    /\ AppLayout = "stack"
    /\ TabLayout = "tabs"
    /\ HeaderRight = "Add New"

\* The add-product route of the (app) stack shows its form
AddFormShown ==
    /\ ProviderRendersChildren
    /\ AppLayout = "stack"
    /\ AuthorizedToAdd(profileRole)

----------------------------------------------------------------------------
\* Properties of sign-up

\* A sign-up has ended with the account created, the manual profile insert
\* tried, and no profile row for the account
ProfileMissing ==
    /\ signupStep = "idle"
    /\ NewUser \in accounts
    /\ userTable[NewUser] = "none"
    /\ backendCalls # <<>>
    /\ backendCalls[Len(backendCalls)] = "User.insert"

\* C12: when a sign-up ends with the auth account created and the profile row
\* missing (no row from the trigger, the manual insert failed), the screen
\* does not report success and the new user is not taken into the app: the
\* failure is shown (contact support).
C12_MissingProfileDetected ==
    [][(signupStep # "idle" /\ ProfileMissing') =>
          /\ signupAlert' = "Signup Succeeded but Profile Creation Failed"
          /\ ~(authSession' = NewUser /\ AppLayout' = "stack")]_vars


\* Input SignupScreen.js must refuse: an empty field, a malformed phone
\* number, a password of fewer than 6 characters, a confirmation that differs
InvalidV1(form) ==
    \/ form.fullName = "" \/ form.phone = <<>>
    \/ form.password = <<>> \/ form.confirmPassword = <<>>
    \/ ~IsValidPhone(form.phone)
    \/ Len(form.password) < 6
    \/ form.password # form.confirmPassword

\* Input part_003 must refuse; it asks for an email or a phone number and has
\* no confirmation field
InvalidV2(form) ==
    \/ form.fullName = "" \/ form.password = <<>>
    \/ (form.email = <<>> /\ form.phone = <<>>)
    \/ (form.email # <<>> /\ ~IsValidEmail(form.email))
    \/ (form.phone # <<>> /\ ~IsValidPhone(form.phone))
    \/ Len(form.password) < 6

\* The handler has shown an alert and gone no further
RefusedAtInput ==
    /\ signupAlert' # ""
    /\ signupStep' = "idle"
    /\ backendCalls' = backendCalls
    /\ accounts' = accounts
    /\ userTable' = userTable

\* C15: a sign-up press with invalid input (an empty required field, a
\* malformed phone number, a password shorter than 6 characters, a
\* confirmation that does not match) shows its error at once and sends
\* nothing to the backend: no auth signUp and no profile insert.
\* (stated by contraposition: a step that is not such a refusal is not the
\* handler's step for any invalid form)
C15_InvalidSignupNotSent ==
    [][~RefusedAtInput =>
          /\ \A form \in FormsV1 : HandleSignupV1(form) => ~InvalidV1(form)
          /\ \A form \in FormsV2 : HandleSignupV2(form) => ~InvalidV2(form)]_vars

\* The mismatch was reported before anything had been sent
C15_MismatchRefused ==
    /\ signupAlert = "Passwords do not match."
    /\ backendCalls = <<>>


----------------------------------------------------------------------------
\* Deleting a product from the product list, (tabs)/products.js: "service" is
\* the version that calls deleteProduct of part_010, "storage" the version
\* that deletes the row and then the image object itself.

DeleteScreens == {"service", "storage"}

\* item.imageUrl: productA was added with an uploaded image, productB with
\* base64 data in its row, any other product has none
ImageUrl(product) ==
    IF product = "productA" THEN PublicUrl(ImageOfA)
    ELSE IF product = "productB" THEN <<"data:image", "jpeg;base64,", "9j", "4AAQ">>
    ELSE <<>>

\* urlParts.indexOf(part), counted from 0; -1 when there is none
IndexOf(urlParts, part) ==
    IF \E i \in DOMAIN urlParts : urlParts[i] = part
      THEN (CHOOSE i \in DOMAIN urlParts :
               urlParts[i] = part /\ \A j \in 1..(i-1) : urlParts[j] # part) - 1
      ELSE -1

\* urlParts.slice(urlParts.indexOf('product-images') + 1)
ImagePath(imageUrl) ==
    SubSeq(imageUrl, IndexOf(imageUrl, "product-images") + 2, Len(imageUrl))

notDelete == <<db, viewer, aggVars, chatVars, prodVars, authVars, navVars>>

\* The Delete button of the confirmation of a listed product; the list shows
\* its delete buttons to a seller
ConfirmDelete ==
    /\ profileRole = "seller"
    /\ delStep.at = "idle"
    /\ \E product \in products, screen \in DeleteScreens :
          delStep' = [at |-> "db", product |-> product, screen |-> screen]
    /\ delAlerts' = <<>>
    /\ UNCHANGED <<notDelete, products, storage>>

\* The delete of the row answers
DeleteRowResponds ==
    /\ delStep.at = "db"
    /\ \/ /\ delAlerts' = <<"Error deleting product">>
          /\ delStep' = [delStep EXCEPT !.at = "idle"]
          /\ UNCHANGED products
       \/ /\ products' = products \ {delStep.product}
          /\ IF /\ delStep.screen = "storage"
                /\ ImageUrl(delStep.product) # <<>>
                /\ ImagePath(ImageUrl(delStep.product)) # <<>>
               THEN /\ delStep' = [delStep EXCEPT !.at = "storage"]
                    /\ UNCHANGED delAlerts
               ELSE /\ delStep' = [delStep EXCEPT !.at = "idle"]
                    /\ delAlerts' = <<"Success">>
    /\ UNCHANGED <<notDelete, storage>>

\* supabase.storage.from('product-images').remove([imagePath]) answers
RemoveImageResponds ==
    /\ delStep.at = "storage"
    /\ \/ /\ delAlerts' = <<"Product Deleted", "Success">>
          /\ UNCHANGED storage
       \/ /\ storage' = storage \ {ImagePath(ImageUrl(delStep.product))}
          /\ delAlerts' = <<"Success">>
    /\ delStep' = [delStep EXCEPT !.at = "idle"]
    /\ UNCHANGED <<notDelete, products>>

\* The products of the store: added through the add-product screens, deleted
\* from the product list
NextCatalog ==
    \/ NextProduct
    \/ ConfirmDelete
    \/ DeleteRowResponds
    \/ RemoveImageResponds

SpecCatalog == InitProduct /\ [][NextCatalog]_vars

\* The handler has reported success for the product it was asked to delete
DeleteReportedSuccess ==
    /\ delStep.at = "idle"
    /\ delAlerts # <<>>
    /\ delAlerts[Len(delAlerts)] = "Success"

\* C16: after a delete that reports success neither the product's row nor the
\* product's image object in the bucket remains.
C16_DeleteRemovesImage ==
    DeleteReportedSuccess =>
        /\ delStep.product \notin products
        /\ \A path \in storage : PublicUrl(path) # ImageUrl(delStep.product)

----------------------------------------------------------------------------
\* Product deleted under an open chat

\* C17: the delete of the product's row while the ChatScreen for it is open
\* changes nothing of the session, and every load that ends once the row is
\* gone ends with the empty list or with the load error.
C17_DeleteLeavesSession ==
    [][/\ (scr = "chat" /\ ProductHeld(ProductId) /\ ~ProductHeld(ProductId)')
            => UNCHANGED chatVars
       /\ (loading /\ ~loading' /\ scr' = "chat" /\ ~ProductHeld(ProductId))
            => \/ messages' = <<>> /\ chatError' = ""
               \/ chatError' = "Could not load messages."]_vars

\* A second ChatScreen for the deleted product has loaded the empty list
C17_NewSessionLoadsEmpty ==
    /\ ~ProductHeld(ProductId)
    /\ scr = "chat"
    /\ session = MaxSessions
    /\ ~loading
    /\ messages = <<>>
    /\ chatError = ""

----------------------------------------------------------------------------
\* The states of a chat session

\* Closed, Loading, Ready or Sending, read off the screen's state
SessionState ==
    IF scr = "closed" THEN "Closed"
    ELSE IF loading THEN "Loading"
    ELSE IF sending THEN "Sending"
    ELSE "Ready"

\* A send of the mounted screen is under way
SendInFlight == sendReq.st # "none" /\ Live(sendReq)

\* C18: a send starts only in Ready, with no other send of the session under
\* way, and the step that ends a send of the session leaves the session in
\* Ready with `sending` cleared.
C18_SessionStateMachine ==
    [][/\ (~SendInFlight /\ SendInFlight') => (SessionState = "Ready" /\ SessionState' = "Sending")
       /\ (SendInFlight /\ sendReq'.st = "none") => (SessionState' = "Ready" /\ ~sending')]_vars

----------------------------------------------------------------------------
\* What a send submits

\* The handlers ran for the text `content` of the send box
SendPressed(content) == OnSend(Trim(content)) \/ DetailSendMessage(content)

\* C19: a send of a non-empty text issues one insert for that text, and the
\* insert the store runs for it adds exactly one row, from the viewer to the
\* counterparty about the session's product with that text.
C19_SendSubmitsOneInsert ==
    [][/\ \A content \in Contents :
             (Trim(content) # "" /\ SendPressed(content))
                => /\ sendReq.st = "none"
                   /\ sendReq'.st = "issued"
                   /\ sendReq'.content = Trim(content)
       /\ (sendReq.st = "issued" /\ sendReq'.st = "committed")
             => /\ Len(db') = Len(db) + 1
                /\ LET row == db'[Len(db')]
                   IN /\ row.senderId = viewer
                      /\ row.receiverId = ReceiverId
                      /\ row.productId = ProductId
                      /\ row.content = sendReq.content]_vars

----------------------------------------------------------------------------
\* The view and the thread

\* Every entry of the view shows a row of the session's thread
ViewInThread ==
    \A i \in DOMAIN messages :
        /\ messages[i].id \in DOMAIN db
        /\ InThread(db[messages[i].id], viewer, ReceiverId, ProductId)

\* The view has an entry for the row
Shown(view, row) == \E i \in DOMAIN view : view[i].id = row.id

\* C20: the view holds rows of the session's thread only; the subscription
\* callback leaves the view alone for an event of another pair about the same
\* product, and adds the counterparty's message of the thread to it.
C20_ViewIsThread ==
    [][/\ ViewInThread'
       /\ (feed # <<>> /\ (ChatDeliver \/ DetailDeliver))
            => LET newMessage == Head(feed)
               IN /\ ~InThread(newMessage, viewer, ReceiverId, ProductId)
                        => messages' = messages
                  /\ (InThread(newMessage, viewer, ReceiverId, ProductId)
                         /\ newMessage.senderId = ReceiverId)
                        => /\ Shown(messages', newMessage)
                           /\ Len(messages') = Len(messages) + 1]_vars

\* A third user's and then the counterparty's message about the product were
\* stored; the load had failed, and the view shows the counterparty's message
C20_CounterpartyAppended ==
    /\ scr # "closed"
    /\ ~loading
    /\ chatError # ""
    /\ feed = <<>>
    /\ Len(db) = MaxMsgs
    /\ db[1].senderId = "U3"
    /\ db[MaxMsgs].senderId = ReceiverId
    /\ Len(messages) = 1
    /\ Shown(messages, db[MaxMsgs])

----------------------------------------------------------------------------
\* A message stored while the load is in flight

\* The screen has taken every answer and every event there is for it, and its
\* load succeeded
Settled ==
    /\ scr # "closed"
    /\ ~loading
    /\ loads = <<>>
    /\ feed = <<>>
    /\ chatError = ""

\* How many entries of the view show the row
Count(view, row) == Cardinality({i \in DOMAIN view : view[i].id = row.id})

\* C21: once the load's answer and the events of the channel have all been
\* taken, every message of the counterparty in the thread, one stored while
\* the load was in flight included, is shown exactly once.
C21_RacedMessageShownOnce ==
    Settled =>
        \A i \in DOMAIN db :
            (InThread(db[i], viewer, ReceiverId, ProductId) /\ db[i].senderId = ReceiverId)
                => Count(messages, db[i]) = 1

----------------------------------------------------------------------------
\* The profile and the latest auth state

\* The initial check, every listener call, the refresh timer and the sign-up
\* handlers have run to their end
AuthQuiescent ==
    /\ initStep = "done"
    /\ fetches = {}
    /\ ~timerArmed
    /\ signupStep = "idle"

\* C22: once every handler and every profile fetch has ended, the profile is
\* null when the latest session has no user, and otherwise is what
\* getUserProfile gives for the user of the latest session.
C22_ProfileFollowsSession ==
    AuthQuiescent =>
        IF authSession = "none" THEN profileRole = "none"
        ELSE profileRole \in GetUserProfile(authSession)

----------------------------------------------------------------------------
\* Who writes the profile

\* The steps of the provider that call setProfile: the initial session check,
\* the auth state listener, and the profile refresh of handleSignUp
ProviderWrites ==
    \/ GetSessionResponds
    \/ InitProfileResponds
    \/ AuthEvent
    \/ ListenerProfileResponds
    \/ TimerFires

\* C23: every step that changes the profile of the context is a step of the
\* provider's session check, auth state listener or profile refresh.
C23_ProfileWrittenByProviderOnly ==
    [][profileRole' # profileRole => ProviderWrites]_vars

----------------------------------------------------------------------------
\* Requests of one fetch

\* C24: the last fetch of the conversation list asked the store at most once,
\* and when the store answered that request with an error the fetch ended in
\* the screen's catch with the error shown.
C24_NoAutomaticRetry ==
    /\ Len(aggFetch.answers) <= 1
    /\ (aggFetch.answers # <<>> /\ aggFetch.answers[1] # "ok")
          => (aggFetch.ended = "caught" /\ aggError # "")

----------------------------------------------------------------------------
\* Opening a chat: the paths to ChatScreen ("chat") and ChatDetailScreen
\* ("detail"), and the send of the chat they open

\* Product.sellerId: a seller's own listing is productA, every other product
\* is U2's
SellerOf(product) ==
    IF product = "productA" /\ profileRole = "seller" THEN viewer ELSE "U2"

\* profile.id of the context: the row createUserProfile returned has it, the
\* select of getUserProfile (fullName, phone, role, createdAt) has not
ProfileIds == {viewer, Undefined}

notNav == <<products, viewer, aggVars, chatVars, prodVars, authVars, delVars>>

\* The route is shown with the receiverId
Shows(screen, receiverId) == [screen |-> screen, receiverId |-> receiverId, alert |-> ""]

\* The route is not taken
Refuses(text) == [screen |-> "none", receiverId |-> "none", alert |-> text]

\* part_005 handleContactSeller; the button is there when the profile's id is
\* not the seller's
DetailContactSeller ==
    /\ \E product \in products, profileId \in ProfileIds :
          /\ profileId # SellerOf(product)
          /\ route' = IF profileId = Undefined
                        THEN Refuses("Your user profile is not loaded. Cannot initiate chat.")
                      ELSE IF profileId = SellerOf(product)
                        THEN Refuses("You cannot start a chat about your own product listing.")
                      ELSE Shows("chat", SellerOf(product))
    /\ UNCHANGED <<db, notNav, userRow, profileUpdate, edit, listing>>

\* "Contact Seller" of the product list, through the effect of the
\* conversation list that takes productId and sellerId from its params
CatalogContactSeller ==
    /\ profileRole = "buyer"
    /\ \E product \in products, profileId \in ProfileIds :
          /\ SellerOf(product) # profileId
          /\ route' = Shows("detail", SellerOf(product))
    /\ UNCHANGED <<db, notNav, userRow, profileUpdate, edit, listing>>

\* A conversation of the list is pressed: the other user of one of the
\* viewer's rows is the receiverId
ConversationPress ==
    /\ \E i \in DOMAIN db, screen \in {"chat", "detail"} :
          /\ InvolvesUser(db[i], viewer)
          /\ route' = Shows(screen, OtherUserId(db[i], viewer))
    /\ UNCHANGED <<db, notNav, userRow, profileUpdate, edit, listing>>

\* The route /(app)/chat is entered with params: the effect of ChatScreen
\* asks for a receiverId and a productId and for nothing else
OpenChatRoute ==
    /\ \E receiverId \in Users \cup {""} :
          route' = IF receiverId = ""
                     THEN Refuses("Missing critical information to load chat.")
                   ELSE Shows("chat", receiverId)
    /\ UNCHANGED <<db, notNav, userRow, profileUpdate, edit, listing>>

\* onSend of the ChatScreen the route shows, through sendMessage of
\* messageService.js to the row the store adds
SendOnRoute ==
    /\ route.screen = "chat"
    /\ Len(db) < MaxRows
    /\ \E content \in Contents :
          /\ ServiceSendMessageValid(viewer, route.receiverId, ProductId, Trim(content))
          /\ db' = Append(db, NewRow(viewer, route.receiverId, ProductId,
                                     Trim(content), LastTimestamp + 1))
    /\ UNCHANGED <<notNav, route, userRow, profileUpdate, edit, listing>>

InitContact ==
    /\ db = <<>>
    /\ products = Products
    /\ viewer = "U1"
    /\ AggIdle
    /\ ChatIdle
    /\ AuthIdle
    /\ DeleteIdle
    /\ NavIdle
    /\ profileRole \in {"buyer", "seller"}
    /\ addScreen = "closed"
    /\ addStep = Idle
    /\ addResult = ""
    /\ requests = <<>>

NextContact ==
    \/ InsertMessage
    \/ DetailContactSeller
    \/ CatalogContactSeller
    \/ ConversationPress
    \/ OpenChatRoute
    \/ SendOnRoute

SpecContact == InitContact /\ [][NextContact]_vars

\* C25: no row of Message has the same user as sender and as receiver, and
\* no chat is shown whose receiverId is the viewer.
C25_NoSelfMessage ==
    /\ \A i \in DOMAIN db : db[i].senderId # db[i].receiverId
    /\ route.screen # "none" => route.receiverId # viewer

----------------------------------------------------------------------------
\* Profile updates (unnamed/part_012 updateUserProfile, the settings screen of
\* products.js, AuthContext.refreshProfile)

ProfileFields == {"fullName", "phone", "role"}

\* What a caller may put in a field of profileData
FieldValues(field) ==
    IF field = "fullName" THEN {"Asha", "Juma"}
    ELSE IF field = "phone" THEN {"+255700000001", "+255700000002"}
    ELSE {"buyer", "seller"}

\* Every profileData over the fields: an object with any of them
ProfileDatas ==
    UNION {{data \in [present -> UNION {FieldValues(f) : f \in ProfileFields}] :
               \A f \in present : data[f] \in FieldValues(f)}
             : present \in SUBSET ProfileFields}

\* Every field of profileData is sent to the store
AllFields(profileData) == profileData

\* allowedUpdates of updateUserProfile: fullName and phone where profileData
\* has them
AllowedUpdates(profileData) ==
    [f \in DOMAIN profileData \cap {"fullName", "phone"} |-> profileData[f]]

\* .update(allowedUpdates).eq('id', userId): the row with the fields replaced
UpdatedRow(row, allowedUpdates) ==
    [f \in DOMAIN row |-> IF f \in DOMAIN allowedUpdates THEN allowedUpdates[f] ELSE row[f]]

\* String.prototype.trim on the texts of the settings form
TrimField(text) == IF text = " " THEN "" ELSE text

notProfile == <<storeVars, aggVars, chatVars, addScreen, addStep, addResult, requests,
                authVars, delVars, route, edit, listing>>

\* updateUserProfile(userId, profileData) for the viewer: nothing is sent for
\* an empty profileData or one without an allowed field; the update the store
\* is sent succeeds or fails
UpdateUserProfile(profileData) ==
    LET allowedUpdates == AllowedUpdates(profileData)
    IN IF DOMAIN profileData = {} \/ DOMAIN allowedUpdates = {}
         THEN /\ profileUpdate' = [asked |-> DOMAIN profileData, payload |-> <<>>, ended |-> "null"]
              /\ UNCHANGED userRow
         ELSE \/ /\ userRow' = UpdatedRow(userRow, allowedUpdates)
                 /\ profileUpdate' = [asked |-> DOMAIN profileData,
                                      payload |-> allowedUpdates, ended |-> "updated"]
              \/ /\ profileUpdate' = [asked |-> DOMAIN profileData,
                                      payload |-> allowedUpdates, ended |-> "thrown"]
                 /\ UNCHANGED userRow

\* A caller of the service, with any profileData
ServiceUpdate ==
    /\ \E profileData \in ProfileDatas : UpdateUserProfile(profileData)
    /\ UNCHANGED <<notProfile, profileRole>>

\* refreshProfile of the context: getUserProfile's answer is the profile
RefreshProfile ==
    /\ profileRole' \in {userRow.role, "none"}
    /\ UNCHANGED <<notProfile, userRow, profileUpdate, edit, listing>>

\* handleProfileUpdate of the settings screen with the texts of its two
\* inputs; after an update it awaits refreshProfile
HandleProfileUpdate ==
    /\ \E fullName \in FieldValues("fullName") \cup {"", " "},
          phone \in FieldValues("phone") \cup {""} :
          IF TrimField(fullName) = "" \/ TrimField(phone) = ""
            THEN /\ profileUpdate' = [asked |-> {}, payload |-> <<>>,
                                      ended |-> "Validation Error"]
                 /\ UNCHANGED <<userRow, profileRole>>
            ELSE /\ UpdateUserProfile([fullName |-> TrimField(fullName),
                                       phone |-> TrimField(phone)])
                 /\ IF profileUpdate'.ended = "updated"
                      THEN profileRole' \in {userRow'.role, "none"}
                      ELSE UNCHANGED profileRole
    /\ UNCHANGED notProfile

\* The viewer signed up with a role; the context holds the profile
InitProfile ==
    /\ db = <<>>
    /\ products = Products
    /\ viewer = "U1"
    /\ AggIdle
    /\ ChatIdle
    /\ AuthIdle
    /\ DeleteIdle
    /\ route = NoRoute
    /\ edit = NoEdit
    /\ listing = NoListing
    /\ profileUpdate = NoUpdate
    /\ \E role \in PickerRoles :
          /\ userRow = [fullName |-> "Asha", phone |-> "+255700000001", role |-> role]
          /\ profileRole = role
    /\ addScreen = "closed"
    /\ addStep = Idle
    /\ addResult = ""
    /\ requests = <<>>

NextProfile ==
    \/ ServiceUpdate
    \/ RefreshProfile
    \/ HandleProfileUpdate

SpecProfile == InitProfile /\ [][NextProfile]_vars

\* C26: no step changes the role of the user's row, every update sent to the
\* store carries fullName and phone at most, and the role of the context's
\* profile is the row's whenever there is a profile.
C26_RoleImmutable ==
    [][/\ userRow'.role = userRow.role
       /\ DOMAIN profileUpdate'.payload \subseteq {"fullName", "phone"}
       /\ profileRole' \in {userRow.role, "none"}]_vars

\* A caller passed a role among the fields; the name was written, the role
\* was not
C26_RoleFieldDropped ==
    /\ profileUpdate.ended = "updated"
    /\ profileUpdate.asked = {"fullName", "role"}
    /\ DOMAIN profileUpdate.payload = {"fullName"}
    /\ userRow.fullName = "Juma"
    /\ userRow.role = "buyer"
    /\ profileRole = "buyer"

----------------------------------------------------------------------------
\* Who may change a product: the edit-product screen and the Delete buttons
\* of the product list

\* getProductById: the row as its select returns it, with the seller embedded
\* and without a sellerId column; no row for a product the store has not
SelectedProduct(productId) ==
    IF productId \in products
      THEN [id |-> productId, sellerId |-> Undefined, seller |-> [id |-> SellerOf(productId)]]
      ELSE [id |-> "none", sellerId |-> Undefined, seller |-> [id |-> "none"]]

\* The authorization of fetchProductDetails: refused when profile?.id differs
\* from data.sellerId and from data.seller?.id
EditRefused(profileId, data) ==
    profileId # data.sellerId /\ profileId # data.seller.id

\* getProducts(sellerId): the rows of the seller when a sellerId is given,
\* every row otherwise
GetProducts(sellerId) ==
    IF sellerId \in {"null", Undefined}
      THEN products
      ELSE {product \in products : SellerOf(product) = sellerId}

\* supabase.from('Product').select('*').eq('sellerId', profile.id) of the
\* storage version of the list
SelectBySeller(profileId) == {product \in products : SellerOf(product) = profileId}

notEdit == <<db, notNav, route, userRow, profileUpdate>>

\* The route /(app)/editProduct/[id] is entered for a product, by a user
\* whose profile has or has not an id; the effect starts fetchProductDetails
OpenEditProduct ==
    /\ edit.screen # "loading"
    /\ \E productId \in Products, profileId \in ProfileIds :
          edit' = [edit EXCEPT !.screen = "loading", !.product = productId,
                               !.profileId = profileId, !.alert = ""]
    /\ UNCHANGED <<notEdit, listing>>

\* getProductById answers fetchProductDetails
FetchProductDetails ==
    /\ edit.screen = "loading"
    /\ \/ edit' = [edit EXCEPT !.screen = "home",
                               !.alert = "Could not load product details."]
       \/ LET data == SelectedProduct(edit.product) IN
            edit' = IF data.id = "none"
                      THEN [edit EXCEPT !.screen = "home", !.alert = "Product not found."]
                    ELSE IF EditRefused(edit.profileId, data)
                      THEN [edit EXCEPT !.screen = "home", !.alert = "Unauthorized"]
                    ELSE [edit EXCEPT !.screen = "form"]
    /\ UNCHANGED <<notEdit, listing>>

\* handleSubmit of the form, with its fields filled or one of them emptied
EditHandleSubmit ==
    /\ edit.screen = "form"
    /\ \E filled \in BOOLEAN :
          edit' = IF ~filled
                    THEN [edit EXCEPT !.alert = "Missing Fields"]
                  ELSE [edit EXCEPT !.updates = @ \cup {edit.product},
                                    !.alert = "Success", !.screen = "detail"]
    /\ UNCHANGED <<notEdit, listing>>

\* fetchProducts of the product list, to the list and the buttons it renders
FetchProducts ==
    /\ profileRole # "none"
    /\ \E profileId \in ProfileIds, screen \in DeleteScreens :
          \/ listing' = [listing EXCEPT !.alert = "Error fetching products"]
          \/ LET data == IF profileRole # "seller" THEN products
                         ELSE IF screen = "service" THEN GetProducts(profileId)
                         ELSE SelectBySeller(profileId)
             IN  listing' = [listed |-> data,
                             deleteOffered |-> IF profileRole = "seller" THEN data ELSE {},
                             alert |-> ""]
    /\ UNCHANGED <<notEdit, edit>>

NextEdit ==
    \/ OpenEditProduct
    \/ FetchProductDetails
    \/ EditHandleSubmit
    \/ FetchProducts
    \/ ConfirmDelete
    \/ DeleteRowResponds
    \/ RemoveImageResponds

SpecEdit == InitContact /\ [][NextEdit]_vars

\* C27: every product the edit-product screen has called updateProduct for
\* is one whose seller is the signed-in user, and every product the list
\* puts a Delete button on is one whose seller is the signed-in user.
C27_OnlyOwnerMutates ==
    /\ \A productId \in edit.updates : SellerOf(productId) = viewer
    /\ \A productId \in listing.deleteOffered : SellerOf(productId) = viewer

----------------------------------------------------------------------------
\* The initial session check ends

\* The promises fetchSession awaits settle: getSession answers, and so does
\* the getUserProfile it calls for the session's user
LiveAuth == SpecAuth /\ WF_vars(GetSessionResponds) /\ WF_vars(InitProfileResponds)

\* C28: whatever getSession and getUserProfile answer, initialLoading becomes
\* false, and once it is false it is never true again (the provider renders
\* its children from then on).
C28_InitialCheckTerminates ==
    /\ <>(~initialLoading)
    /\ [](~initialLoading => [](~initialLoading))

\* The check ended for a stored session whose profile could not be read
C28_EndedWithoutProfile ==
    /\ ~initialLoading
    /\ initStep = "done"
    /\ authEvents = 0
    /\ authSession = "U1"
    /\ profileRole = "none"

----------------------------------------------------------------------------
\* The guard of the (app) group

\* C29: once the initial check is over, the layout of the (app) group shows
\* its screens only with a session, a profile and no loading in progress;
\* with no session, or with a session and no profile when nothing is
\* loading, a user on an (app) route is sent to the login route and the
\* layout does not show the screens.
C29_AppGroupGuarded ==
    ~initialLoading =>
       /\ AppLayout = "stack" =>
             authSession # "none" /\ profileRole # "none" /\ ~authLoading
       /\ (authSession = "none" \/ (profileRole = "none" /\ ~authLoading)) =>
             /\ InitialLayoutEffect("(app)") = "login"
             /\ AppLayout # "stack"
             /\ ~authLoading => AppLayout = "login"

\* After an auth state change was resolved there is a session and no
\* profile: the layout redirects to login
C29_NoProfileRedirected ==
    /\ ~initialLoading
    /\ ~authLoading
    /\ authEvents > 0
    /\ fetches = {}
    /\ authSession = "U1"
    /\ profileRole = "none"
    /\ AppLayout = "login"
    /\ InitialLayoutEffect("(app)") = "login"

----------------------------------------------------------------------------
\* The image of a failed add

\* C30: when the storage version of handleAddProduct has ended with its
\* error alert after its insert was sent (the upload had succeeded) and the
\* store has no row of the new product, the bucket does not hold the image
\* the handler uploaded.
C30_FailedAddRemovesImage ==
    (/\ addStep = Idle
     /\ addResult = "Failed to add product"
     /\ requests # <<>>
     /\ requests[Len(requests)] = [kind |-> "insert", screen |-> "v2", role |-> "seller"]
     /\ "productNew" \notin products)
       => NewImage \notin storage

====
